---- MODULE Spec2Model ----
(***************************************************************************)
(* The stepping loop of PSR.py: a well-stirred combustor is advanced one   *)
(* internal integrator step at a time up to tfinal, and a down-sampled     *)
(* trace is written to combustor.csv, which is then read back.             *)
(*                                                                         *)
(* Units.  Simulated time is counted in ticks of 0.02 s (the time          *)
(* threshold 2e-2 of the write condition is one tick, tfinal = 6.0 s is    *)
(* 300 ticks).  Temperatures are whole kelvins (the threshold 1.0 is 1).   *)
(* The residence time mass/mdot is an exact fraction <<num, den>>.         *)
(*                                                                         *)
(* The reactor network (sim.step), the reactor's state and the valve are   *)
(* library objects: each step they return some later time and some state,  *)
(* chosen here from small sets.                                            *)
(***************************************************************************)
EXTENDS Integers, Sequences, FiniteSets, TLC

\* ---------------------------------------------------------------- bounds
\* Largest advance of one internal integrator step, in ticks (the h of the
\* sampling-gap bound).
MaxStep == 2
\* The reactor temperature ranges over T0 .. T0 + MaxRise.
MaxRise == 2
\* Number of species of the loaded mechanism.
NSpecies == 2

\* ------------------------------------------------------ program constants
\* tfinal = 6.0 [s], in ticks of 0.02 s.
tfinal == 300
\* The time threshold 2e-2 [s] of the write condition, in ticks of 0.02 s.
DtThresh == 1
\* The temperature threshold 1.0 [K] of the write condition.
TThresh == 1
\* gas.TPX = 300.0, ...: the temperature the combustor is filled at.
T0 == 300

VARIABLES
  pc,         \* the statement the script is at
  tnow,       \* tnow
  Tprev,      \* Tprev
  tprev,      \* tprev
  Tnow,       \* Tnow (unbound before the first step)
  tres,       \* tres (unbound before the first step)
  combustor,  \* the reactor: [T, mass, X]
  v_mdot,     \* the valve's mass flow rate at the time last queried
  outfile,    \* the output handle: "none", "open", "closed"
  nclose,     \* number of times outfile.close() has run
  csv,        \* combustor.csv: the header, then the data rows; of the data
              \* rows the last two are kept
  csvfile     \* the read-back handle: "none", "open", "closed"

vars == <<pc, tnow, Tprev, tprev, Tnow, tres, combustor, v_mdot,
          outfile, nclose, csv, csvfile>>

Abs(x) == IF x < 0 THEN -x ELSE x

Last(s) == s[Len(s)]

RECURSIVE GCD(_, _)
GCD(a, b) == IF b = 0 THEN a ELSE GCD(b, a % b)

\* combustor.thermo.species_names, in the mechanism's order.
species_names == [i \in 1..NSpecies |-> i]

\* combustor.thermo.X: a vector of NSpecies mole fractions.
MoleFractions == {[i \in 1..NSpecies |-> 0]}

Temps == T0 .. (T0 + MaxRise)

\* A script variable before its first assignment; a bound Tnow is <<T>>, a
\* bound tres is the fraction <<num, den>>.
Unbound == <<>>

\* v.mdot(tnow): the valve is shut (no flow) or passes one unit of flow.
ValveFlows == {0, 1}

\* Variant: the header lacks the residence-time column.
fieldnamesNoTres == <<"time", "T">> \o species_names

\* fieldnames = ['time','T','tres'] + combustor.thermo.species_names
fieldnames == <<"time", "T", "tres">> \o species_names

\* Variant: the comparison is turned round.
LoopCondInverted(t) == t > tfinal

\* Variant: the loop stops one tick short of tfinal.
LoopCondEarly(t) == t < tfinal - 1

\* while tnow < tfinal
LoopCond(t) == t < tfinal

\* tnow = sim.step(tfinal): the time after one internal step of dt ticks.
sim_step(t, dt) == t + dt

\* combustor.mass / v.mdot(tnow), for mdot # 0.
residence(mass, mdot) == <<mass \div GCD(mass, mdot), mdot \div GCD(mass, mdot)>>

\* Variant: >= in place of >.
WriteCondGe(Tn, Tp, tn, tp) == Abs(Tn - Tp) >= TThresh \/ tn - tp >= DtThresh

\* Variant: the elapsed-time test is dropped.
WriteCondTempOnly(Tn, Tp, tn, tp) == Abs(Tn - Tp) > TThresh

\* abs(Tnow - Tprev) > 1.0 or tnow - tprev > 2e-2
WriteCond(Tn, Tp, tn, tp) == Abs(Tn - Tp) > TThresh \/ tn - tp > DtThresh

\* Variant: the first two columns are swapped.
csvrowSwapped(tn, Tc, r, X) == <<Tc, tn, r>> \o X

\* [tnow, combustor.T, tres] + list(combustor.thermo.X)
csvrow(tn, Tc, r, X) == <<tn, Tc, r>> \o X

\* The file keeps its header and, of the data rows, the last two.
Elide(f) == IF Len(f) > 3 THEN <<f[1]>> \o SubSeq(f, Len(f) - 1, Len(f)) ELSE f

\* Variant: a data row replaces the last data row instead of following it.
writerowOverwrite(f, row) ==
  IF Len(f) >= 2 THEN [f EXCEPT ![Len(f)] = row] ELSE Append(f, row)

\* csvwriter.writerow(row): appends one line to the file.
writerow(f, row) == Elide(Append(f, row))

Init ==
  /\ pc = "open"
  /\ tnow = 0
  /\ Tprev = T0
  /\ tprev = 0
  /\ Tnow = Unbound
  /\ tres = Unbound
  /\ combustor = [T |-> T0, mass |-> 1, X |-> [i \in 1..NSpecies |-> 0]]
  /\ v_mdot = 0
  /\ outfile = "none"
  /\ nclose = 0
  /\ csv = <<>>
  /\ csvfile = "none"

\* outfile = open('combustor.csv','wb')
OpenOut ==
  /\ pc = "open"
  /\ outfile' = "open"
  /\ csv' = <<>>
  /\ pc' = "header"
  /\ UNCHANGED <<tnow, Tprev, tprev, Tnow, tres, combustor, v_mdot, nclose, csvfile>>

\* Variant: the state at time 0 is written as a row right after the header.
WriteHeaderAndInitial ==
  /\ pc = "header"
  /\ outfile = "open"
  /\ csv' = writerow(writerow(csv, fieldnames),
                     csvrow(tnow, combustor.T, residence(combustor.mass, 1), combustor.X))
  /\ pc' = "loop"
  /\ UNCHANGED <<tnow, Tprev, tprev, Tnow, tres, combustor, v_mdot, outfile, nclose, csvfile>>

\* csvwriter = csv.writer(outfile); csvwriter.writerow(fieldnames)
WriteHeader ==
  /\ pc = "header"
  /\ outfile = "open"
  /\ csv' = writerow(csv, fieldnames)
  /\ pc' = "loop"
  /\ UNCHANGED <<tnow, Tprev, tprev, Tnow, tres, combustor, v_mdot, outfile, nclose, csvfile>>

\* Variant: a zero valve flow is tolerated; the pass is skipped and the loop
\* goes on.
LoopBodyRecover(dt, T, mass, mdot, X) ==
  /\ tnow' = sim_step(tnow, dt)
  /\ combustor' = [T |-> T, mass |-> mass, X |-> X]
  /\ v_mdot' = mdot
  /\ IF mdot = 0
     THEN /\ pc' = "loop"
          /\ UNCHANGED <<Tprev, tprev, Tnow, tres, csv>>
     ELSE /\ tres' = residence(mass, mdot)
          /\ Tnow' = <<T>>
          /\ IF WriteCond(T, Tprev, tnow', tprev)
             THEN /\ tprev' = tnow'
                  /\ Tprev' = T
                  /\ csv' = writerow(csv, csvrow(tnow', T, tres', X))
             ELSE UNCHANGED <<tprev, Tprev, csv>>
          /\ pc' = "loop"
  /\ UNCHANGED <<outfile, nclose, csvfile>>

\* One pass of the loop body: the step advances the network by dt ticks to
\* a reactor state (T, mass, X) with valve flow mdot.
LoopBody(dt, T, mass, mdot, X) ==
  /\ tnow' = sim_step(tnow, dt)
  /\ combustor' = [T |-> T, mass |-> mass, X |-> X]
  /\ v_mdot' = mdot
  /\ IF mdot = 0
     THEN \* ZeroDivisionError: the script ends here
          /\ pc' = "failed"
          /\ UNCHANGED <<Tprev, tprev, Tnow, tres, csv>>
     ELSE /\ tres' = residence(mass, mdot)
          /\ Tnow' = <<T>>
          /\ IF WriteCond(T, Tprev, tnow', tprev)
             THEN /\ tprev' = tnow'
                  /\ Tprev' = T
                  /\ csv' = writerow(csv, csvrow(tnow', T, tres', X))
             ELSE UNCHANGED <<tprev, Tprev, csv>>
          /\ pc' = "loop"
  /\ UNCHANGED <<outfile, nclose, csvfile>>

Step ==
  /\ pc = "loop"
  /\ LoopCond(tnow)
  /\ outfile = "open"
  /\ \E dt \in 1..MaxStep, T \in Temps, mdot \in ValveFlows, X \in MoleFractions :
       LoopBody(dt, T, 1, mdot, X)

\* the loop exits; outfile.close()
Close ==
  /\ pc = "loop"
  /\ ~LoopCond(tnow)
  /\ outfile' = "closed"
  /\ nclose' = nclose + 1
  /\ pc' = "read"
  /\ UNCHANGED <<tnow, Tprev, tprev, Tnow, tres, combustor, v_mdot, csv, csvfile>>

\* with open('combustor.csv','rb') as csvfile:
OpenRead ==
  /\ pc = "read"
  /\ csvfile' = "open"
  /\ pc' = "reading"
  /\ UNCHANGED <<tnow, Tprev, tprev, Tnow, tres, combustor, v_mdot, outfile, nclose, csv>>

\* the columns are read; the with block ends
FinishRead ==
  /\ pc = "reading"
  /\ csvfile' = "closed"
  /\ pc' = "done"
  /\ UNCHANGED <<tnow, Tprev, tprev, Tnow, tres, combustor, v_mdot, outfile, nclose, csv>>

Next == OpenOut \/ WriteHeader \/ Step \/ Close \/ OpenRead \/ FinishRead

Spec == Init /\ [][Next]_vars

\* The script is one sequential thread: a statement that can run, runs.
LiveSpec == Spec /\ WF_vars(Next)

\* ------------------------------------------------------------------ claims
\* In the formulas below the thresholds are written out in the model's units:
\* 1.0 K is 1, 0.02 s is 1 tick, 6.0 s is 300 ticks, 300 K is 300.

\* The script has left the loop by its exit test.
Exited == pc \in {"read", "reading", "done"}

\* C1: a loop pass that completes writes a data row if and only if
\* |T_now - last_written_T| > 1.0 or t_now - last_written_t > 0.02; the
\* trackers become (t_now, T_now) exactly on the passes that write, and they
\* are always the (time, T) of the last written row, or (0, T at time 0) when
\* no row has been written.
C1_WritePolicy ==
  /\ [](IF Len(csv) >= 2
        THEN tprev = Last(csv)[1] /\ Tprev = Last(csv)[2]
        ELSE tprev = 0 /\ Tprev = 300)
  /\ [][(pc = "loop" /\ pc' = "loop" /\ tnow' # tnow) =>
          LET cond == Abs(combustor'.T - Tprev) > 1 \/ tnow' - tprev > 1
          IN  /\ (csv' # csv) <=> cond
              /\ cond => /\ Last(csv')[1] = tnow'
                         /\ Last(csv')[2] = combustor'.T
                         /\ tprev' = tnow'
                         /\ Tprev' = combustor'.T
              /\ ~cond => tprev' = tprev /\ Tprev' = Tprev]_vars

\* A pass that sits exactly on both thresholds after a row was written: it is
\* not written.
C1_Witness ==
  /\ pc = "loop"
  /\ Len(csv) = 3
  /\ tnow - tprev = 1
  /\ Abs(combustor.T - Tprev) = 1

\* C2 (as claimed): the first data row has time 0 and the initial temperature.
C2_FirstRowIsTimeZero ==
  Len(csv) = 2 => (csv[2][1] = 0 /\ csv[2][2] = 300)

\* C2 (amended): the state at time 0 is the reference point only and is not
\* written: every data row has a time > 0, and the first data row is a step
\* that meets the write condition against the reference (0, T at time 0).
C2_FirstRowAfterTimeZero ==
  /\ \A i \in 2..Len(csv) : csv[i][1] > 0
  /\ Len(csv) = 2 => (Abs(csv[2][2] - 300) > 1 \/ csv[2][1] - 0 > 1)
  /\ Len(csv) <= 1 => (tprev = 0 /\ Tprev = 300)

\* The first data row, written at the first tick for its temperature alone.
C2_Witness ==
  /\ Len(csv) = 2
  /\ csv[2][1] = 1
  /\ csv[2][2] = 302

\* C3 (as claimed): when the loop has exited the last written row has a
\* time >= 6.0.
C3_LastRowReachesEnd ==
  Exited => (Len(csv) >= 2 /\ Last(csv)[1] >= 300)

\* C3 (amended): when the loop has exited, t_now >= 6.0 and the last written
\* row lies within 0.02 s and 1.0 K of the final state (so its time is at
\* least 5.98 s); the final step is written only if it meets the write
\* condition.
C3_LastRowNearEnd ==
  Exited => /\ tnow >= 300
            /\ Len(csv) >= 2
            /\ tnow - Last(csv)[1] <= 1
            /\ Last(csv)[1] >= 299
            /\ Abs(combustor.T - Last(csv)[2]) <= 1

\* A finished run whose final step was not written.
C3_Witness ==
  /\ pc = "done"
  /\ tnow >= 300
  /\ Last(csv)[1] < tnow

\* C4: with every step advancing time by at least one tick and no step
\* failing, the loop reaches t_now >= 6.0 and exits, and no integrator step is
\* taken after the exit.
C4_Terminates ==
  /\ <>(pc = "failed" \/ (Exited /\ tnow >= 300))
  /\ [][Exited => (Exited' /\ tnow' = tnow /\ combustor' = combustor)]_vars

\* The loop has exited at the end time.
C4_Witness ==
  /\ pc = "read"
  /\ tnow >= 300

\* C5: each data row's time is strictly greater than the previous data
\* row's, also for a row written for the temperature threshold alone.
C5_MonotonicTime ==
  Len(csv) = 3 => csv[3][1] > csv[2][1]

\* Two consecutive rows, the later written for its temperature alone.
C5_Witness ==
  /\ Len(csv) = 3
  /\ csv[3][1] - csv[2][1] = 1
  /\ Abs(csv[3][2] - csv[2][2]) > 1

\* C6: a step that finds the valve's flow at exactly zero ends the run there:
\* no row is written for it, met write condition or not, and nothing runs
\* afterwards (no later row, no retry, no further step).
C6_FailFast ==
  /\ [][(pc = "loop" /\ tnow' # tnow /\ v_mdot' = 0) =>
          (pc' = "failed" /\ csv' = csv /\ tprev' = tprev /\ Tprev' = Tprev)]_vars
  /\ [][pc = "failed" => UNCHANGED vars]_vars

\* A failed step that met the write condition, after rows were written.
C6_Witness ==
  /\ pc = "failed"
  /\ Len(csv) = 3
  /\ Abs(combustor.T - Tprev) > 1
  /\ tnow - tprev > 1

\* C7: the table is one header row, time, T, tres and the species names in
\* the model's order, written before any data row, and every data row has the
\* header's arity, 3 + N.
C7_TableShape ==
  /\ pc \in {"loop", "failed", "read", "reading", "done"} => Len(csv) >= 1
  /\ Len(csv) >= 1 => /\ csv[1] = <<"time", "T", "tres">> \o species_names
                      /\ Len(csv[1]) = 3 + NSpecies
  /\ \A i \in 2..Len(csv) : /\ Len(csv[i]) = Len(csv[1])
                            /\ Len(csv[i]) = 3 + NSpecies
                            /\ csv[i][1] \in Nat

\* A table with data rows.
C7_Witness ==
  /\ Len(csv) = 3
  /\ Len(csv[3]) = 3 + NSpecies
  /\ pc = "loop"

\* C8: on a run with no failure the output handle is opened before the
\* header is written, is open during the whole loop, is closed exactly once
\* after the loop, no row is written after the close, written rows are never
\* changed, and the read-back starts only after the close.
C8_HandleLifecycle ==
  /\ [](/\ Len(csv) >= 1 => outfile # "none"
        /\ pc \in {"header", "loop"} => (outfile = "open" /\ nclose = 0)
        /\ Exited => (outfile = "closed" /\ nclose = 1)
        /\ csvfile # "none" => outfile = "closed")
  /\ [][/\ outfile = "closed" => csv' = csv
        /\ \/ csv' = csv
           \/ Len(csv) < 3 /\ Len(csv') = Len(csv) + 1
                           /\ SubSeq(csv', 1, Len(csv)) = csv
           \/ Len(csv) = 3 /\ Len(csv') = 3
                           /\ csv'[1] = csv[1] /\ csv'[2] = csv[3]]_vars

\* The table has been read back after the close.
C8_Witness ==
  /\ pc = "done"
  /\ outfile = "closed"
  /\ csvfile = "closed"
  /\ Len(csv) = 3

\* C10: with every step advancing time by at most h = MaxStep, the first
\* data row's time is at most 0.02 + h, two consecutive data rows differ in
\* time by at most 0.02 + h, and every state that is not written lies within
\* 1.0 K and 0.02 s of the last reference point.
C10_BoundedGap ==
  /\ Len(csv) = 2 => csv[2][1] <= 1 + MaxStep
  /\ Len(csv) = 3 => csv[3][1] - csv[2][1] <= 1 + MaxStep
  /\ pc \in {"loop", "read", "reading", "done"} =>
       (tnow - tprev <= 1 /\ Abs(combustor.T - Tprev) <= 1)

\* Two consecutive rows as far apart as the bound allows.
C10_Witness ==
  /\ Len(csv) = 3
  /\ csv[3][1] - csv[2][1] = 1 + MaxStep

====
